---- MODULE Spec2Model ----
(***************************************************************************)
(* Model of audio-wire (src/main.rs).                                      *)
(*                                                                         *)
(* Sender role (args.mode = true): the "Capture" thread runs capture_loop, *)
(* which reads device bytes into sample_queue and sends fixed-size chunks  *)
(* into a std::sync::mpsc::sync_channel(2); the main thread creates        *)
(* recorded.raw, connects, and forwards every received chunk to the TCP    *)
(* stream and then to the file.                                            *)
(* Receiver role (args.mode = false): main binds a TcpListener and         *)
(* services the incoming connections one after the other.                  *)
(*                                                                         *)
(* Bytes are modelled by their position in the captured stream (the n-th   *)
(* byte the device delivers has value n): the program never inspects a     *)
(* byte, so loss, duplication and reordering all show up as a sequence     *)
(* that is no longer 1, 2, 3, ...                                          *)
(***************************************************************************)
EXTENDS Integers, Sequences, FiniteSets, TLC

\* ---------------------------------------------------------------- sizes
\* main.rs:35-37  WaveFormat::new(32, 32, Float, 44100, 2).get_blockalign()
\* is 8 bytes per frame; scaled down to 1 to keep byte sequences small.
blockalign == 1
\* main.rs:103  let chunksize = 4096 (frames); scaled down to 2.
chunksize == 2
\* main.rs:102  mpsc::sync_channel(2)
ChannelBound == 2

\* Largest number of bytes one read_from_device_to_deque call appends.
MaxRead == 4
\* Total number of bytes the device delivers in a run.
MaxPushed == 10
\* Receiver: number of connections the listener hands out in a run.
MaxConns == 3
\* Receiver: number of non-empty reads in a run.
MaxSpans == 3

\* main.rs:67,69  blockalign as usize * chunksize
chunk_bytes == blockalign * chunksize

VARIABLES
    mode,          \* args.mode: "sender" or "receiver"
    \* --- capture thread (capture_loop)
    captpc,        \* "init", "drain", "send", "read", "wait", "done"
    captResult,    \* "none", "ok" (capture_loop returned Ok), "err"
    sample_queue,  \* VecDeque<u8>
    chunk,         \* the Vec<u8> built at line 69, <<>> when none is in hand
    npushed,       \* number of bytes the device has delivered so far
    emitted,       \* history: the chunks sliced off sample_queue, in order
    captCause,     \* why capture_loop ended: "none", "init", "send", "read", "timeout"
    queuedAtDone,  \* history: chunks queued in the channel when capture_loop ended
    \* --- sync_channel(2)
    chan,          \* queued chunks
    txAlive,       \* tx_capt not yet dropped
    rxAlive,       \* rx_capt not yet dropped
    sent,          \* history: chunks for which send returned Ok
    received,      \* history: chunks returned by recv
    \* --- main thread, sender role
    netpc,         \* "create", "connect", "recv", "wstream", "wfile", "returned"
    netResult,     \* "none", "createfail", "connfail", "closed", "writefail"
    cur,           \* the chunk bound by Ok(chunk) at line 125
    conn,          \* bytes written to the TcpStream, in write order
    logf,          \* bytes written to recorded.raw, in write order
    exited,        \* the process has exited (main returned and the runtime ended)
    \* --- main thread, receiver role
    rpc,           \* "bind", "device", "listening", "streaming", "terminal"
    nconn,         \* connections accepted so far
    lastRead,      \* latest stream.read: "none", "err", "zero" (n = 0), "data" (n > 0)
    nzero,         \* number of zero-length reads so far
    played         \* history: <<connection, n>> for each span handed to playback

vars == <<mode, captpc, captResult, sample_queue, chunk, npushed, emitted,
          captCause, queuedAtDone,
          chan, txAlive, rxAlive, sent, received,
          netpc, netResult, cur, conn, logf, exited,
          rpc, nconn, lastRead, nzero, played>>

captVars == <<captpc, captResult, sample_queue, chunk, npushed, emitted,
             captCause, queuedAtDone>>
chanVars == <<chan, txAlive, rxAlive, sent, received>>
netVars  == <<netpc, netResult, cur, conn, logf>>
recvVars == <<rpc, nconn, lastRead, nzero, played>>

\* ---------------------------------------------------------------- helpers
RECURSIVE Flatten(_)
Flatten(blocks) ==
    IF blocks = <<>> THEN <<>> ELSE Head(blocks) \o Flatten(Tail(blocks))

IsPrefix(s, t) == Len(s) <= Len(t) /\ SubSeq(t, 1, Len(s)) = s

\* The bytes number a+1 .. a+n of the captured stream.
Span(a, n) == [i \in 1..n |-> a + i]

Init ==
    /\ mode \in {"sender", "receiver"}
    /\ captpc = "init" /\ captResult = "none"
    /\ captCause = "none" /\ queuedAtDone = 0
    /\ sample_queue = <<>> /\ chunk = <<>> /\ npushed = 0 /\ emitted = <<>>
    /\ chan = <<>> /\ txAlive = TRUE /\ rxAlive = TRUE
    /\ sent = <<>> /\ received = <<>>
    /\ netpc = "create" /\ netResult = "none" /\ cur = <<>>
    /\ conn = <<>> /\ logf = <<>> /\ exited = FALSE
    /\ rpc = "bind" /\ nconn = 0 /\ lastRead = "none" /\ nzero = 0
    /\ played = <<>>


\* ---------------------------------------------------------------- capture thread
\* Every action of the process is guarded by ~exited: once main has returned
\* and the runtime has ended the process, no thread runs any more.

\* main.rs:31-64: device and client setup; every step is a `?`.
CaptureInitOk ==
    /\ mode = "sender" /\ ~exited /\ captpc = "init"
    /\ captpc' = "drain"
    /\ UNCHANGED <<mode, captCause, queuedAtDone,
                   captResult, sample_queue, chunk, npushed, emitted,
                   chanVars, netVars, exited, recvVars>>

\* capture_loop returns Err: tx_capt, owned by capture_loop, is dropped, and
\* the closure at lines 110-112 reports the error.
CaptureInitErr ==
    /\ mode = "sender" /\ ~exited /\ captpc = "init"
    /\ captpc' = "done" /\ captResult' = "err" /\ txAlive' = FALSE
    /\ captCause' = "init" /\ queuedAtDone' = Len(chan)
    /\ UNCHANGED <<mode, sample_queue, chunk, npushed, emitted,
                   chan, rxAlive, sent, received, netVars, exited, recvVars>>

\* The loop condition had it been written with >= (see C1).
DrainCondGe == Len(sample_queue) >= chunk_bytes
\* main.rs:67: the condition of the while loop.
DrainCond == Len(sample_queue) > (blockalign * chunksize)

\* A chunk one byte short (see C3).
TakeChunkShort(q) == SubSeq(q, 1, chunk_bytes - 1)
\* main.rs:69-72: a chunk of blockalign * chunksize bytes popped from the front.
TakeChunk(q) == SubSeq(q, 1, blockalign * chunksize)

\* One pop_front too few: the last byte of the chunk stays queued (see C2).
RestAfterChunkKeep(q) == SubSeq(q, chunk_bytes, Len(q))
\* main.rs:70-72: what the pop_front calls leave in the queue.
RestAfterChunk(q) == SubSeq(q, blockalign * chunksize + 1, Len(q))

\* main.rs:67-72: the loop condition holds; build the chunk.
DrainTake ==
    /\ mode = "sender" /\ ~exited /\ captpc = "drain"
    /\ DrainCond
    /\ chunk' = TakeChunk(sample_queue)
    /\ sample_queue' = RestAfterChunk(sample_queue)
    /\ emitted' = Append(emitted, TakeChunk(sample_queue))
    /\ captpc' = "send"
    /\ UNCHANGED <<mode, captCause, queuedAtDone,
                   captResult, npushed, chanVars, netVars, exited, recvVars>>

\* main.rs:67,75: the loop condition fails; the drain pass is complete.
DrainExit ==
    /\ mode = "sender" /\ ~exited /\ captpc = "drain"
    /\ ~DrainCond
    /\ captpc' = "read"
    /\ UNCHANGED <<mode, captCause, queuedAtDone,
                   captResult, sample_queue, chunk, npushed, emitted,
                   chanVars, netVars, exited, recvVars>>

\* A buffer that takes one chunk more than its bound (see C5).
SendHasRoomOver == Len(chan) <= ChannelBound
\* main.rs:73,102: SyncSender::send blocks while the buffer of the channel is full.
SendHasRoom == Len(chan) < ChannelBound

\* main.rs:73: what send leaves queued.
Enqueued(q, b) == Append(q, b)

\* main.rs:73: send returns Ok.
SendOk ==
    /\ mode = "sender" /\ ~exited /\ captpc = "send"
    /\ rxAlive /\ SendHasRoom
    /\ chan' = Enqueued(chan, chunk)
    /\ sent' = Append(sent, chunk)
    /\ chunk' = <<>>
    /\ captpc' = "drain"
    /\ UNCHANGED <<mode, captCause, queuedAtDone,
                   captResult, sample_queue, npushed, emitted,
                   txAlive, rxAlive, received, netVars, exited, recvVars>>

\* A sender suspended on the full channel that is not woken (see C9).
SendSeesDisconnectOnlyWithRoom == ~rxAlive /\ Len(chan) < ChannelBound
\* main.rs:73: when send observes the receiver dropped.
SendSeesDisconnect == ~rxAlive

\* main.rs:73: the receiver is gone: send returns Err (also for a sender that
\* was suspended on the full channel), `?` returns it from capture_loop.
SendErr ==
    /\ mode = "sender" /\ ~exited /\ captpc = "send"
    /\ SendSeesDisconnect
    /\ chunk' = <<>>
    /\ captpc' = "done" /\ captResult' = "err" /\ txAlive' = FALSE
    /\ captCause' = "send" /\ queuedAtDone' = Len(chan)
    /\ UNCHANGED <<mode, sample_queue, npushed, emitted,
                   chan, rxAlive, sent, received, netVars, exited, recvVars>>

\* main.rs:76: read_from_device_to_deque appends n >= 0 bytes.
ReadOk ==
    /\ mode = "sender" /\ ~exited /\ captpc = "read"
    /\ \E n \in 0..MaxRead :
          /\ npushed + n <= MaxPushed
          /\ sample_queue' = sample_queue \o Span(npushed, n)
          /\ npushed' = npushed + n
    /\ captpc' = "wait"
    /\ UNCHANGED <<mode, captCause, queuedAtDone,
                   captResult, chunk, emitted, chanVars, netVars, exited,
                   recvVars>>

\* A device error that ends the loop like a normal return (see C16).
ReadErrSwallowed ==
    /\ mode = "sender" /\ ~exited /\ captpc = "read"
    /\ captpc' = "done" /\ captResult' = "ok" /\ txAlive' = FALSE
    /\ captCause' = "read" /\ queuedAtDone' = Len(chan)
    /\ UNCHANGED <<mode, sample_queue, chunk, npushed, emitted,
                   chan, rxAlive, sent, received, netVars, exited, recvVars>>

\* main.rs:76: the device read fails and `?` returns the error.
ReadErr ==
    /\ mode = "sender" /\ ~exited /\ captpc = "read"
    /\ captpc' = "done" /\ captResult' = "err" /\ txAlive' = FALSE
    /\ captCause' = "read" /\ queuedAtDone' = Len(chan)
    /\ UNCHANGED <<mode, sample_queue, chunk, npushed, emitted,
                   chan, rxAlive, sent, received, netVars, exited, recvVars>>

\* A loop that reads again without a drain pass in between (see C18).
WaitOkSkipsDrain ==
    /\ mode = "sender" /\ ~exited /\ captpc = "wait"
    /\ captpc' = "read"
    /\ UNCHANGED <<mode, captCause, queuedAtDone,
                   captResult, sample_queue, chunk, npushed, emitted,
                   chanVars, netVars, exited, recvVars>>

\* main.rs:77: the event arrives within 3000 ms.
WaitOk ==
    /\ mode = "sender" /\ ~exited /\ captpc = "wait"
    /\ captpc' = "drain"
    /\ UNCHANGED <<mode, captCause, queuedAtDone,
                   captResult, sample_queue, chunk, npushed, emitted,
                   chanVars, netVars, exited, recvVars>>

\* main.rs:77-83: timeout; stop_stream()? then break and Ok(()).
WaitTimeout ==
    /\ mode = "sender" /\ ~exited /\ captpc = "wait"
    /\ captpc' = "done" /\ txAlive' = FALSE
    /\ \E stopped \in BOOLEAN :
          captResult' = IF stopped THEN "ok" ELSE "err"
    /\ captCause' = "timeout" /\ queuedAtDone' = Len(chan)
    /\ UNCHANGED <<mode, sample_queue, chunk, npushed, emitted,
                   chan, rxAlive, sent, received, netVars, exited, recvVars>>

CaptStep ==
    \/ CaptureInitOk \/ CaptureInitErr \/ DrainTake \/ DrainExit
    \/ SendOk \/ SendErr \/ ReadOk \/ ReadErr \/ WaitOk \/ WaitTimeout


\* ---------------------------------------------------------------- main thread, sender role
\* Returning from main drops its locals, rx_capt among them.

\* main.rs:115: File::create("recorded.raw")?
CreateOk ==
    /\ mode = "sender" /\ ~exited /\ netpc = "create"
    /\ netpc' = "connect"
    /\ UNCHANGED <<mode, captVars, chanVars, netResult, cur, conn, logf, exited,
                   recvVars>>

CreateErr ==
    /\ mode = "sender" /\ ~exited /\ netpc = "create"
    /\ netpc' = "returned" /\ netResult' = "createfail" /\ rxAlive' = FALSE
    /\ UNCHANGED <<mode, captVars, chan, txAlive, sent, received, cur, conn, logf,
                   exited, recvVars>>

\* main.rs:117-122: TcpStream::connect succeeds.
ConnectOk ==
    /\ mode = "sender" /\ ~exited /\ netpc = "connect"
    /\ netpc' = "recv"
    /\ UNCHANGED <<mode, captVars, chanVars, netResult, cur, conn, logf, exited,
                   recvVars>>

\* A failed connect after which the drain loop is entered all the same (see C13).
ConnectErrEntersLoop ==
    /\ mode = "sender" /\ ~exited /\ netpc = "connect"
    /\ netpc' = "recv" /\ netResult' = "connfail"
    /\ UNCHANGED <<mode, captVars, chanVars, cur, conn, logf, exited, recvVars>>

\* main.rs:119-122: "Could not connect to server"; return Ok(()).
ConnectErr ==
    /\ mode = "sender" /\ ~exited /\ netpc = "connect"
    /\ netpc' = "returned" /\ netResult' = "connfail" /\ rxAlive' = FALSE
    /\ UNCHANGED <<mode, captVars, chan, txAlive, sent, received, cur, conn, logf,
                   exited, recvVars>>

\* A receive that hands out the newest chunk (see C4).
DequeuedLast(q) == q[Len(q)]
\* main.rs:124: the chunk recv hands out.
Dequeued(q) == Head(q)

\* main.rs:124: what recv leaves queued.
RestOfQueue(q) == Tail(q)

\* A receiver that is only woken when the channel is full (see C19).
RecvOkOnlyWhenFull ==
    /\ mode = "sender" /\ ~exited /\ netpc = "recv"
    /\ Len(chan) = ChannelBound
    /\ cur' = Dequeued(chan)
    /\ received' = Append(received, Dequeued(chan))
    /\ chan' = RestOfQueue(chan)
    /\ netpc' = "wstream"
    /\ UNCHANGED <<mode, captVars, txAlive, rxAlive, sent, netResult, conn, logf,
                   exited, recvVars>>

\* main.rs:124-125: recv returns Ok(chunk).
RecvOk ==
    /\ mode = "sender" /\ ~exited /\ netpc = "recv"
    /\ chan # <<>>
    /\ cur' = Dequeued(chan)
    /\ received' = Append(received, Dequeued(chan))
    /\ chan' = RestOfQueue(chan)
    /\ netpc' = "wstream"
    /\ UNCHANGED <<mode, captVars, txAlive, rxAlive, sent, netResult, conn, logf,
                   exited, recvVars>>

\* A receive that never reports the closed channel (see C8).
RecvSeesClosedNever == FALSE
\* A receive that reports the closed channel while chunks are queued (see C20).
RecvSeesClosedEarly == ~txAlive
\* main.rs:124: when recv reports the channel closed.
RecvSeesClosed == chan = <<>> /\ ~txAlive

\* main.rs:131-134: recv returns Err(RecvError); "Some error"; return Ok(()).
RecvClosed ==
    /\ mode = "sender" /\ ~exited /\ netpc = "recv"
    /\ RecvSeesClosed
    /\ netpc' = "returned" /\ netResult' = "closed" /\ rxAlive' = FALSE
    /\ UNCHANGED <<mode, captVars, chan, txAlive, sent, received, cur, conn, logf,
                   exited, recvVars>>

\* A write that repeats the chunk (see C7).
WrittenTwice(b) == b \o b
\* main.rs:128: the bytes a successful stream.write_all appends.
Written(b) == b

\* main.rs:128: stream.write_all(&chunk) succeeds.
WriteStreamOk ==
    /\ mode = "sender" /\ ~exited /\ netpc = "wstream"
    /\ conn' = conn \o Written(cur)
    /\ netpc' = "wfile"
    /\ UNCHANGED <<mode, captVars, chanVars, netResult, cur, logf, exited, recvVars>>

\* A failing write that takes the whole process down at once (see C12).
WriteStreamErrEndsProcess ==
    /\ mode = "sender" /\ ~exited /\ netpc = "wstream"
    /\ \E k \in 0..(Len(cur) - 1) : conn' = conn \o SubSeq(cur, 1, k)
    /\ netpc' = "returned" /\ netResult' = "writefail" /\ rxAlive' = FALSE
    /\ cur' = <<>>
    /\ exited' = TRUE
    /\ UNCHANGED <<mode, captVars, chan, txAlive, sent, received, logf, recvVars>>

\* main.rs:128: write_all fails after k < len bytes went out; `?` returns Err.
WriteStreamErr ==
    /\ mode = "sender" /\ ~exited /\ netpc = "wstream"
    /\ \E k \in 0..(Len(cur) - 1) : conn' = conn \o SubSeq(cur, 1, k)
    /\ netpc' = "returned" /\ netResult' = "writefail" /\ rxAlive' = FALSE
    /\ cur' = <<>>
    /\ UNCHANGED <<mode, captVars, chan, txAlive, sent, received, logf, exited,
                   recvVars>>

\* A sink that skips the log file (see C6).
LoggedNothing(b) == <<>>
\* main.rs:129: what outfile.write_all(&chunk) appends to recorded.raw.
Logged(b) == b

\* main.rs:129: outfile.write_all(&chunk) succeeds; next iteration of the loop.
WriteFileOk ==
    /\ mode = "sender" /\ ~exited /\ netpc = "wfile"
    /\ logf' = logf \o Logged(cur)
    /\ cur' = <<>>
    /\ netpc' = "recv"
    /\ UNCHANGED <<mode, captVars, chanVars, netResult, conn, exited, recvVars>>

\* A failing file write after which the loop goes on (see C14).
WriteFileErrContinues ==
    /\ mode = "sender" /\ ~exited /\ netpc = "wfile"
    /\ \E k \in 0..(Len(cur) - 1) : logf' = logf \o SubSeq(cur, 1, k)
    /\ netpc' = "recv" /\ netResult' = "writefail"
    /\ cur' = <<>>
    /\ UNCHANGED <<mode, captVars, chanVars, conn, exited, recvVars>>

\* main.rs:129: write_all fails after k < len bytes reached the file.
WriteFileErr ==
    /\ mode = "sender" /\ ~exited /\ netpc = "wfile"
    /\ \E k \in 0..(Len(cur) - 1) : logf' = logf \o SubSeq(cur, 1, k)
    /\ netpc' = "returned" /\ netResult' = "writefail" /\ rxAlive' = FALSE
    /\ cur' = <<>>
    /\ UNCHANGED <<mode, captVars, chan, txAlive, sent, received, conn, exited,
                   recvVars>>

NetStep ==
    \/ CreateOk \/ CreateErr \/ ConnectOk \/ ConnectErr
    \/ RecvOk \/ RecvClosed
    \/ WriteStreamOk \/ WriteStreamErr \/ WriteFileOk \/ WriteFileErr

\* main.rs:87,121,128,129,133: main has returned; the runtime ends the process
\* and with it the capture thread, whatever it was doing.
ProcessExit ==
    /\ mode = "sender" /\ ~exited /\ netpc = "returned"
    /\ exited' = TRUE
    /\ UNCHANGED <<mode, captVars, chanVars, netVars, recvVars>>


\* ---------------------------------------------------------------- main thread, receiver role
\* rpc: "bind" and "device" are startup, "listening" is the accept call of
\* server.incoming(), "streaming" the inner loop, "terminal" the end of main.

\* main.rs:140: TcpListener::bind(..)?
BindOk ==
    /\ mode = "receiver" /\ rpc = "bind"
    /\ rpc' = "device"
    /\ UNCHANGED <<mode, captVars, chanVars, netVars, exited, nconn, lastRead,
                   nzero, played>>

BindErr ==
    /\ mode = "receiver" /\ rpc = "bind"
    /\ rpc' = "terminal"
    /\ UNCHANGED <<mode, captVars, chanVars, netVars, exited, nconn, lastRead,
                   nzero, played>>

\* main.rs:141-145: default output device and its config.
DeviceOk ==
    /\ mode = "receiver" /\ rpc = "device"
    /\ rpc' = "listening"
    /\ UNCHANGED <<mode, captVars, chanVars, netVars, exited, nconn, lastRead,
                   nzero, played>>

\* main.rs:144-145: expect / unwrap panic when there is no output device.
DevicePanic ==
    /\ mode = "receiver" /\ rpc = "device"
    /\ rpc' = "terminal"
    /\ UNCHANGED <<mode, captVars, chanVars, netVars, exited, nconn, lastRead,
                   nzero, played>>

\* A listener that accepts while a connection is still being read (see C17).
AcceptWhileStreaming ==
    /\ mode = "receiver" /\ rpc \in {"listening", "streaming"}
    /\ nconn < MaxConns
    /\ nconn' = nconn + 1
    /\ rpc' = "streaming"
    /\ UNCHANGED <<mode, captVars, chanVars, netVars, exited, lastRead, nzero,
                   played>>

\* main.rs:146-147: the iterator yields the next connection.
Accept ==
    /\ mode = "receiver" /\ rpc = "listening"
    /\ nconn < MaxConns
    /\ nconn' = nconn + 1
    /\ rpc' = "streaming"
    /\ UNCHANGED <<mode, captVars, chanVars, netVars, exited, lastRead, nzero,
                   played>>

\* main.rs:149,154-163: a read of n > 0 bytes; the span goes to playback.
ReadData ==
    /\ mode = "receiver" /\ rpc = "streaming"
    /\ Len(played) < MaxSpans
    /\ \E n \in 1..MaxRead :
          /\ lastRead' = "data"
          /\ played' = Append(played, <<nconn, n>>)
    /\ UNCHANGED <<mode, captVars, chanVars, netVars, exited, rpc, nconn, nzero>>

\* A zero-length read that ends main (see C10).
ZeroReadNextTerminal == "terminal"
\* main.rs:150-153: where `break` leaves the receiver.
ZeroReadNext == "listening"

\* main.rs:149-153: a zero-length read.
ReadZero ==
    /\ mode = "receiver" /\ rpc = "streaming"
    /\ lastRead' = "zero"
    /\ nzero' = nzero + 1
    /\ rpc' = ZeroReadNext
    /\ UNCHANGED <<mode, captVars, chanVars, netVars, exited, nconn, played>>

\* main.rs:149: stream.read fails and `?` returns the error from main.
ReadFail ==
    /\ mode = "receiver" /\ rpc = "streaming"
    /\ lastRead' = "err"
    /\ rpc' = "terminal"
    /\ UNCHANGED <<mode, captVars, chanVars, netVars, exited, nconn, nzero, played>>

RecvStep ==
    \/ BindOk \/ BindErr \/ DeviceOk \/ DevicePanic
    \/ Accept \/ ReadData \/ ReadZero \/ ReadFail

\* ---------------------------------------------------------------- specification
Next == CaptStep \/ NetStep \/ ProcessExit \/ RecvStep

Spec == Init /\ [][Next]_vars

\* Every call of either thread returns: a device read and the 3000 ms wait end,
\* send returns once there is room or the receiver is gone, recv once a chunk
\* is queued or the sender is gone, connect and write_all succeed or fail.
\* Nothing is assumed about when the runtime ends the process.
FairSpec == Spec /\ WF_vars(CaptStep) /\ WF_vars(NetStep)


\* ---------------------------------------------------------------- properties
\* A drain pass is complete when the while loop at line 67 has been left,
\* i.e. when the capture thread is about to read the device.
DrainPassDone == mode = "sender" /\ captpc = "read"

C2_ByteConservation ==
    mode = "sender" =>
        /\ Flatten(emitted) \o sample_queue = Span(0, npushed)
        /\ (DrainPassDone /\ npushed > chunk_bytes /\ npushed < 2 * chunk_bytes =>
               /\ emitted = <<Span(0, chunk_bytes)>>
               /\ sample_queue = Span(chunk_bytes, npushed - chunk_bytes))

C2_Witness ==
    /\ DrainPassDone /\ npushed > chunk_bytes /\ npushed < 2 * chunk_bytes
    /\ Len(emitted) = 1 /\ Len(sample_queue) = npushed - chunk_bytes

\* C3: every chunk handed to send, queued in the channel or accepted by it
\* has exactly chunk_bytes bytes.
C3_BlockLength ==
    /\ \A i \in 1..Len(sent) : Len(sent[i]) = chunk_bytes
    /\ \A i \in 1..Len(chan) : Len(chan[i]) = chunk_bytes
    /\ (captpc = "send" => Len(chunk) = chunk_bytes)

C3_Witness == Len(sent) >= 3 /\ captpc = "read" /\ sample_queue # <<>>

\* C4: the chunks recv has returned are a prefix of the chunks send has
\* accepted, in the same order.
C4_FifoPrefix == IsPrefix(received, sent)

C4_Witness == Len(received) = 2 /\ Len(sent) = 3 /\ Len(chan) = 1

\* C5: the channel never holds more than ChannelBound chunks; while recv has
\* returned nothing at most ChannelBound sends have completed, and a sender
\* that finds the channel full with the receiver alive cannot complete.
C5_Backpressure ==
    /\ Len(chan) <= ChannelBound
    /\ (received = <<>> => Len(sent) <= ChannelBound)
    /\ (captpc = "send" /\ rxAlive /\ Len(chan) = ChannelBound =>
           ~ENABLED SendOk /\ ~ENABLED SendErr)

C5_Witness ==
    /\ netpc = "connect" /\ received = <<>>
    /\ Len(sent) = ChannelBound /\ captpc = "send" /\ chunk # <<>>

\* C6 (as stated): between two blocks and after the sink loop has ended,
\* however it ended, the log file holds the bytes written to the connection.
C6_LogEqualsWireAlways ==
    (mode = "sender" /\ netpc \in {"recv", "returned"}) => logf = conn

\* C6 (amended): the log file holds the bytes written to the connection
\* between two blocks and when the sink loop ended on channel closure; at
\* any other moment, termination by a write failure included, the log is
\* a prefix of the connection bytes and lacks at most chunk_bytes of them.
C6_LogPrefixOfWire ==
    mode = "sender" =>
        /\ IsPrefix(logf, conn)
        /\ Len(conn) - Len(logf) <= chunk_bytes
        /\ (netpc = "recv" \/ netResult = "closed" => logf = conn)

C6_Witness ==
    /\ netResult = "writefail" /\ Len(logf) > chunk_bytes
    /\ Len(conn) > Len(logf)

\* C7: the bytes written to the connection are a prefix of the chunks
\* sliced off by the accumulator, concatenated in production order, hence
\* of the captured byte stream.
C7_WirePrefixOfEmitted ==
    /\ IsPrefix(conn, Flatten(emitted))
    /\ IsPrefix(conn, Span(0, npushed))

C7_Witness == Len(conn) >= 2 * chunk_bytes /\ Len(emitted) >= 3

\* C8: once the capture thread has terminated, the main thread does not stay
\* in recv: it leaves the sink loop, on the channel-closed result unless a
\* failure ends it earlier.
C8_ProducerClosure ==
    (mode = "sender" /\ captpc = "done") ~> (netpc = "returned")

C8_Witness ==
    /\ captpc = "done" /\ netResult = "closed" /\ Len(received) >= 2

\* C9: once rx_capt is dropped no send completes any more; a send that is
\* attempted or pending returns the error and ends capture_loop, and the
\* capture thread does not stay in send.
C9_ConsumerClosure ==
    /\ [][~rxAlive =>
            /\ sent' = sent
            /\ (captpc = "send" /\ captpc' # "send" =>
                    captpc' = "done" /\ captResult' = "err")]_vars
    /\ ((~rxAlive /\ captpc = "send") ~> (captpc = "done" \/ exited))

C9_Witness ==
    /\ ~rxAlive /\ ~exited /\ captpc = "done" /\ captResult = "err"
    /\ Len(chan) = ChannelBound /\ netResult = "writefail"

\* C10: a zero-length read happens while streaming and leaves the receiver
\* listening, never terminated; from listening the receiver only moves on
\* by accepting the next connection.
C10_ZeroReadBackToListening ==
    [][/\ (nzero' # nzero =>
              rpc = "streaming" /\ rpc' = "listening" /\ lastRead' = "zero")
       /\ (rpc = "listening" /\ rpc' # "listening" =>
              rpc' = "streaming" /\ nconn' = nconn + 1)]_vars

C10_Witness == nzero >= 2 /\ nconn = nzero + 1 /\ rpc = "streaming"


\* C11: a read error while streaming drops the connection only: the receiver
\* is listening or streaming again afterwards, never at the end of main.
C11_ReadErrorRecoverable ==
    (mode = "receiver" /\ lastRead = "err") => rpc \in {"listening", "streaming"}

C13_ConnectFailure ==
    netResult = "connfail" =>
        /\ netpc = "returned"
        /\ received = <<>> /\ conn = <<>> /\ logf = <<>>

C13_Witness ==
    netResult = "connfail" /\ Len(chan) = ChannelBound /\ exited

\* C14: once a write has failed the sink loop is over: no receive and no
\* byte written to the connection or the log file from then on.
C14_WriteFailureTerminal ==
    [][netResult = "writefail" =>
           /\ netpc = "returned" /\ netpc' = "returned"
           /\ received' = received /\ conn' = conn /\ logf' = logf]_vars

C14_Witness ==
    /\ netResult = "writefail" /\ exited /\ chan # <<>>
    /\ Len(received) >= 2

\* C15: a timeout of the wait ends capture_loop with an error outcome.
C15_TimeoutIsCaptureFailed ==
    captCause = "timeout" =>
        captpc = "done" /\ captResult = "err" /\ ~txAlive

\* C16: a failed device read ends capture_loop in that cycle with an error
\* outcome, and a capture thread that has ended sends nothing more.
C16_ReadErrorFatal ==
    /\ [](captCause = "read" =>
             captpc = "done" /\ captResult = "err" /\ ~txAlive)
    /\ [][/\ (captCause = "none" /\ captCause' = "read" =>
                 captpc = "read" /\ sent' = sent /\ chan' = chan)
          /\ (captpc = "done" => captpc' = "done" /\ sent' = sent)]_vars

C16_Witness ==
    /\ captCause = "read" /\ captResult = "err"
    /\ Len(sent) >= 1 /\ sample_queue # <<>>

\* C17: a connection is accepted only while listening, the second and later
\* ones only after a zero-length read; the spans handed to playback belong
\* to the connection being read and so never alternate between connections.
C17_OneConnectionAtATime ==
    /\ [](\A i \in 1..Len(played) :
             /\ played[i][1] \in 1..nconn
             /\ \A j \in i..Len(played) : played[i][1] <= played[j][1])
    /\ [][/\ (nconn' # nconn =>
                 /\ rpc = "listening" /\ nconn' = nconn + 1
                 /\ (nconn = 0 \/ lastRead = "zero"))
          /\ (played' # played =>
                 /\ rpc = "streaming" /\ Len(played') = Len(played) + 1
                 /\ played'[Len(played')][1] = nconn)]_vars

C17_Witness ==
    /\ rpc = "streaming" /\ Len(played) >= 2
    /\ played[1][1] # played[Len(played)][1]

\* C18: the raw capture buffer never holds more than chunk_bytes plus the
\* largest single device read.
C18_BufferBounded == Len(sample_queue) <= chunk_bytes + MaxRead

C18_Witness ==
    /\ Len(sample_queue) = chunk_bytes + MaxRead
    /\ Len(chan) = ChannelBound /\ netpc = "connect"

\* Neither thread has ended.
NoFailure == captpc # "done" /\ netpc # "returned"

\* The capture thread is suspended in send, the main thread in recv.
BothSuspended ==
    /\ captpc = "send" /\ ~ENABLED SendOk /\ ~ENABLED SendErr
    /\ netpc = "recv" /\ ~ENABLED RecvOk /\ ~ENABLED RecvClosed

\* C19: the two threads are never both suspended on the channel, and as
\* long as neither thread ends, the k-th chunk accepted by send is
\* eventually written to the connection and to the log file.
C19_PipelineLiveness ==
    /\ [](mode = "sender" /\ ~exited => ~BothSuspended)
    /\ \A k \in 1..(MaxPushed \div chunk_bytes) :
          (Len(sent) >= k) ~>
              \/ ~NoFailure
              \/ /\ Len(conn) >= k * chunk_bytes
                 /\ Len(logf) >= k * chunk_bytes

C19_Witness ==
    /\ NoFailure /\ netpc = "recv" /\ Len(sent) >= 3
    /\ logf = Flatten(sent) /\ conn = Flatten(sent)

\* C20: when recv has reported the channel closed, the sender was dropped,
\* nothing is left queued, and every chunk send accepted has been received
\* and written, in order, to the connection and the log file.
C20_NoLossAtShutdown ==
    netResult = "closed" =>
        /\ ~txAlive /\ chan = <<>>
        /\ received = sent
        /\ conn = Flatten(sent) /\ logf = Flatten(sent)

C20_Witness ==
    netResult = "closed" /\ queuedAtDone = ChannelBound /\ Len(sent) >= 3

====
